---------------------------- MODULE Spec2Model ----------------------------
(***************************************************************************)
(* PayrollTimesheets: export-timesheet.py, process_timesheet.              *)
(*                                                                         *)
(* One run of the script is a straight-line pipeline: check the input,     *)
(* load the punch CSV and the rate table, normalise the datetimes, group   *)
(* the punches into daily records, organise them per person, then inside   *)
(* one `with pd.ExcelWriter(...)` block lay out one sheet per person and   *)
(* the Summary sheet; leaving the block saves the workbook.                *)
(*                                                                         *)
(* Text that the code compares, sorts, parses or truncates (person ids and *)
(* names, 'Punch Date', 'Attendance record', START) is a sequence of       *)
(* character codes; fixed labels the code only writes are TLA+ strings.    *)
(* Numbers in cells are fixed-point with 4 decimals (1.00 = 10000), which  *)
(* is exact for hours with 2 decimals times rates with 2 decimals.         *)
(***************************************************************************)
EXTENDS Integers, Sequences, FiniteSets, TLC

VARIABLES
    input,            \* the run's environment: files, clock, section configuration
    pc,               \* position of the run in process_timesheet
    rates_dict,       \* ID -> [RATE, START, EXTRA]                     (lines 20-33)
    df,               \* punch rows with their parsed 'Datetime'        (lines 35-49)
    records,          \* the daily records                              (lines 53-69)
    persons,          \* ordered (person, df_person) pairs              (lines 73-86)
    k,                \* index in persons of the next person to lay out (line 105)
    sheets,           \* writer.sheets: label -> cells written          (lines 101-113)
    sheet_order,      \* the workbook's tabs in creation order
    summary_entries,  \* (label, hours_ref, cleans_formula, total_ref)  (lines 103, 290)
    out_file          \* the saved workbook, or Absent

vars == <<input, pc, rates_dict, df, records, persons, k, sheets, sheet_order,
          summary_entries, out_file>>

----------------------------------------------------------------------------
(* Bounds of the checked inputs.                                           *)

MaxRows == 3          \* punch rows in the CSV (aggregation runs)
MaxDays == 3          \* daily records per person (layout runs)
MaxPlaceholders == 3  \* placeholder items of one section
MaxTodayOffset == 70  \* days of "today" after the first checked day

----------------------------------------------------------------------------
(* Text.                                                                   *)

Min(a, b) == IF a < b THEN a ELSE b

Dig2(n) == <<48 + (n \div 10), 48 + (n % 10)>>
Dig4(n) == Dig2(n \div 100) \o Dig2(n % 100)

IsDigit(c) == c >= 48 /\ c <= 57
AllDigits(s, i, j) == \A x \in i..j : IsDigit(s[x])
Num2(s, i) == (s[i] - 48) * 10 + (s[i + 1] - 48)
Num4(s, i) == Num2(s, i) * 100 + Num2(s, i + 2)

\* 'YYYY-MM-DD', 'MM/DD/YYYY' and 'HH:MM:SS' as the CSV holds them
IsoStr(y, m, d) == Dig4(y) \o <<45>> \o Dig2(m) \o <<45>> \o Dig2(d)
UsStr(y, m, d) == Dig2(m) \o <<47>> \o Dig2(d) \o <<47>> \o Dig4(y)
TimeStr(h, mi, s) == Dig2(h) \o <<58>> \o Dig2(mi) \o <<58>> \o Dig2(s)

\* str.strip(): leading and trailing blanks removed
RECURSIVE LStrip(_)
LStrip(s) == IF s # <<>> /\ Head(s) = 32 THEN LStrip(Tail(s)) ELSE s
RECURSIVE RStrip(_)
RStrip(s) ==
    IF s # <<>> /\ s[Len(s)] = 32 THEN RStrip(SubSeq(s, 1, Len(s) - 1)) ELSE s
Strip(s) == RStrip(LStrip(s))

\* Python's str comparison: by code point, a proper prefix first
StrLess(a, b) ==
    \E i \in 1..(Min(Len(a), Len(b)) + 1) :
        /\ \A j \in 1..(i - 1) : a[j] = b[j]
        /\ \/ i > Len(a) /\ i <= Len(b)
           \/ i <= Len(a) /\ i <= Len(b) /\ a[i] < b[i]

----------------------------------------------------------------------------
(* Dates and datetimes.                                                    *)

IsLeap(y) == (y % 4 = 0 /\ y % 100 # 0) \/ y % 400 = 0
DaysInMonth(y, m) ==
    IF m = 2 THEN (IF IsLeap(y) THEN 29 ELSE 28)
    ELSE IF m \in {4, 6, 9, 11} THEN 30 ELSE 31
RECURSIVE DaysBeforeMonth(_, _)
DaysBeforeMonth(y, m) ==
    IF m = 1 THEN 0 ELSE DaysBeforeMonth(y, m - 1) + DaysInMonth(y, m - 1)
\* datetime.toordinal(): day 1 is 0001-01-01
Ordinal(y, m, d) ==
    (y - 1) * 365 + ((y - 1) \div 4) - ((y - 1) \div 100) + ((y - 1) \div 400)
      + DaysBeforeMonth(y, m) + d

NaT == [ok |-> FALSE, day |-> 0, sec |-> 0]
Timestamp(y, m, d, h, mi, s) ==
    [ok |-> TRUE, day |-> Ordinal(y, m, d), sec |-> h * 3600 + mi * 60 + s]
ValidDate(y, m, d) == y >= 1 /\ m \in 1..12 /\ d >= 1 /\ d <= DaysInMonth(y, m)
ValidTime(h, mi, s) == h \in 0..23 /\ mi \in 0..59 /\ s \in 0..59
\* (a - b).total_seconds()
SecondsBetween(a, b) == (a.day - b.day) * 86400 + (a.sec - b.sec)

\* the 'HH:MM:SS' tail shared by both formats: s[11] is the blank
TimeTailOk(s) ==
    /\ s[11] = 32 /\ s[14] = 58 /\ s[17] = 58
    /\ AllDigits(s, 12, 13) /\ AllDigits(s, 15, 16) /\ AllDigits(s, 18, 19)
    /\ ValidTime(Num2(s, 12), Num2(s, 15), Num2(s, 18))

\* pd.to_datetime(..., format='%Y-%m-%d %H:%M:%S', errors='coerce')
ParseIso(s) ==
    IF /\ Len(s) = 19
       /\ AllDigits(s, 1, 4) /\ s[5] = 45 /\ AllDigits(s, 6, 7) /\ s[8] = 45
       /\ AllDigits(s, 9, 10)
       /\ ValidDate(Num4(s, 1), Num2(s, 6), Num2(s, 9))
       /\ TimeTailOk(s)
    THEN Timestamp(Num4(s, 1), Num2(s, 6), Num2(s, 9),
                   Num2(s, 12), Num2(s, 15), Num2(s, 18))
    ELSE NaT

\* pd.to_datetime(..., format='%m/%d/%Y %H:%M:%S', errors='coerce')
ParseUs(s) ==
    IF /\ Len(s) = 19
       /\ AllDigits(s, 1, 2) /\ s[3] = 47 /\ AllDigits(s, 4, 5) /\ s[6] = 47
       /\ AllDigits(s, 7, 10)
       /\ ValidDate(Num4(s, 7), Num2(s, 1), Num2(s, 4))
       /\ TimeTailOk(s)
    THEN Timestamp(Num4(s, 7), Num2(s, 1), Num2(s, 4),
                   Num2(s, 12), Num2(s, 15), Num2(s, 18))
    ELSE NaT

\* lines 36-44: ISO first, the US format for the rows ISO failed on
ParseDatetime(date, time) ==
    LET datetime_str == Strip(date) \o <<32>> \o Strip(time)
        iso == ParseIso(datetime_str)
    IN  IF iso.ok THEN iso ELSE ParseUs(datetime_str)

\* Timestamp.strftime("%H:%M:%S")
StrfTime(t) == TimeStr(t.sec \div 3600, (t.sec % 3600) \div 60, t.sec % 60)

\* line 22: pd.to_datetime(rates_df['START'], errors='coerce'); an empty or
\* unreadable START becomes NaT, a 'YYYY-MM-DD' date is midnight of that
\* day, a 'YYYY-MM-DD HH:MM:SS' datetime is that instant
ParseStart(s) ==
    IF /\ Len(s) = 10
       /\ AllDigits(s, 1, 4) /\ s[5] = 45 /\ AllDigits(s, 6, 7) /\ s[8] = 45
       /\ AllDigits(s, 9, 10)
       /\ ValidDate(Num4(s, 1), Num2(s, 6), Num2(s, 9))
    THEN Timestamp(Num4(s, 1), Num2(s, 6), Num2(s, 9), 0, 0, 0)
    ELSE ParseIso(s)

----------------------------------------------------------------------------
(* Rate table, lines 20-33.                                                *)

\* lines 23-30: one dict entry per row, a later row of the same ID replacing
\* an earlier one
RECURSIVE BuildRatesDict(_, _)
BuildRatesDict(rows, dict) ==
    IF rows = <<>> THEN dict
    ELSE LET row == Head(rows)
             entry == [RATE |-> row.RATE, START |-> ParseStart(row.START),
                       EXTRA |-> row.EXTRA]
         IN  BuildRatesDict(Tail(rows), (row.ID :> entry) @@ dict)

\* lines 20-33: no rate file, no entries
LoadRates(inp) ==
    IF inp.rates_exists THEN BuildRatesDict(inp.rates, <<>>) ELSE <<>>

----------------------------------------------------------------------------
(* Punch normaliser, lines 35-49.                                          *)

\* lines 39-44: the 'Datetime' column
WithDatetime(rows) ==
    [i \in 1..Len(rows) |->
        [pid |-> rows[i].pid, pname |-> rows[i].pname, date |-> rows[i].date,
         time |-> rows[i].time,
         Datetime |-> ParseDatetime(rows[i].date, rows[i].time)]]

IsParsed(row) == row.Datetime.ok

\* lines 47-49: df.dropna(subset=['Datetime'])
DropNa(d) == SelectSeq(d, IsParsed)

----------------------------------------------------------------------------
(* Daily aggregator, lines 51-69.                                          *)

\* line 52: the group key is the 'Punch Date' column as the CSV holds it
GroupKey(row) == <<row.pid, row.pname, row.date>>

\* groupby sorts its keys: tuples compare item by item
KeyLess(a, b) ==
    \E i \in 1..Len(a) :
        /\ \A j \in 1..(i - 1) : a[j] = b[j]
        /\ StrLess(a[i], b[i])

RECURSIVE SortKeys(_)
SortKeys(S) ==
    IF S = {} THEN <<>>
    ELSE LET m == CHOOSE a \in S : \A b \in S \ {a} : KeyLess(a, b)
         IN  <<m>> \o SortKeys(S \ {m})

\* line 56: group.sort_values(by='Datetime'), an insertion sort keeping the
\* order of equal datetimes
RECURSIVE InsertByDatetime(_, _)
InsertByDatetime(sorted, row) ==
    IF sorted = <<>> THEN <<row>>
    ELSE IF SecondsBetween(row.Datetime, Head(sorted).Datetime) < 0
         THEN <<row>> \o sorted
         ELSE <<Head(sorted)>> \o InsertByDatetime(Tail(sorted), row)
RECURSIVE SortByDatetime(_)
SortByDatetime(group) ==
    IF group = <<>> THEN <<>>
    ELSE InsertByDatetime(SortByDatetime(SubSeq(group, 1, Len(group) - 1)),
                          group[Len(group)])

\* line 59: round(total_seconds / 3600, 2), in hundredths of an hour.  The
\* checked punches are on whole minutes, where no duration is a decimal tie
\* (36 k + 18 seconds) and round() is plain rounding to nearest.
RoundHours(seconds) == (seconds * 100 + 1800) \div 3600

MutFirstLastRecord(key, group) ==
    [pid |-> key[1], pname |-> key[2], Location |-> "Maru", Date |-> key[3],
     Start |-> StrfTime(group[1].Datetime),
     End |-> StrfTime(group[Len(group)].Datetime),
     Hours |-> RoundHours(SecondsBetween(group[Len(group)].Datetime,
                                         group[1].Datetime)),
     Details |-> ""]

\* lines 56-69: one record of one group
DayRecord(key, group) ==
    LET group_sorted == SortByDatetime(group)
        check_in == group_sorted[1].Datetime
        check_out == group_sorted[Len(group_sorted)].Datetime
    IN  [pid |-> key[1], pname |-> key[2], Location |-> "Maru", Date |-> key[3],
         Start |-> StrfTime(check_in), End |-> StrfTime(check_out),
         Hours |-> RoundHours(SecondsBetween(check_out, check_in)),
         Details |-> ""]

GroupOf(d, key) == SelectSeq(d, LAMBDA row : GroupKey(row) = key)

\* lines 52-69
BuildRecords(d) ==
    LET keys == SortKeys({GroupKey(d[i]) : i \in 1..Len(d)})
    IN  [i \in 1..Len(keys) |-> DayRecord(keys[i], GroupOf(d, keys[i]))]

----------------------------------------------------------------------------
(* Per-person tables, lines 71-86.                                         *)

\* line 75: group.sort_values(by='Date'); 'Date' is the 'Punch Date' text
RECURSIVE InsertByDate(_, _)
InsertByDate(sorted, rec) ==
    IF sorted = <<>> THEN <<rec>>
    ELSE IF StrLess(rec.Date, Head(sorted).Date)
         THEN <<rec>> \o sorted
         ELSE <<Head(sorted)>> \o InsertByDate(Tail(sorted), rec)
RECURSIVE SortByDate(_)
SortByDate(recs) ==
    IF recs = <<>> THEN <<>>
    ELSE InsertByDate(SortByDate(SubSeq(recs, 1, Len(recs) - 1)),
                      recs[Len(recs)])

\* lines 74-86: persons in key order, each with its sorted table
BuildPersons(recs) ==
    LET keys == SortKeys({<<recs[i].pid, recs[i].pname>> : i \in 1..Len(recs)})
    IN  [i \in 1..Len(keys) |->
            [id |-> keys[i][1], name |-> keys[i][2],
             df_person |->
                SortByDate(SelectSeq(recs,
                    LAMBDA r : r.pid = keys[i][1] /\ r.pname = keys[i][2]))]]

----------------------------------------------------------------------------
(* Worksheets.  A sheet maps the (row, column) pairs written so far, both  *)
(* counted from 0 as xlsxwriter counts them, to a cell [v, fmt, at]: the   *)
(* value, the cell format and the source line of the write that put it     *)
(* there.  A formula holds its references as the text does: a column       *)
(* letter and a row counted from 1.                                        *)

Txt(s) == [t |-> "txt", s |-> s]
Chars(c) == [t |-> "chars", c |-> c]
Number(n) == [t |-> "num", n |-> n]
Blank == [t |-> "blank"]

\* `at` is <<source line, section number>>, the section 0 outside sections
SecCell(row, col, v, fmt, line, sec) ==
    [row |-> row, col |-> col,
     cell |-> [v |-> v, fmt |-> fmt, at |-> <<line, sec>>]]
Cell(row, col, v, fmt, line) == SecCell(row, col, v, fmt, line, 0)

\* worksheet.write*: the writes of a pass in program order, a later write of
\* a cell replacing an earlier one
RECURSIVE ApplyWrites(_, _)
ApplyWrites(sheet, writes) ==
    IF writes = <<>> THEN sheet
    ELSE LET w == Head(writes)
         IN  ApplyWrites((<<w.row, w.col>> :> w.cell) @@ sheet, Tail(writes))

\* lines 106-108
SheetName(p) ==
    LET sheet_name == p.id \o <<32, 45, 32>> \o p.name
    IN  IF Len(sheet_name) > 31 THEN SubSeq(sheet_name, 1, 31) ELSE sheet_name

SummaryName == <<83, 117, 109, 109, 97, 114, 121>>

start_row == 3

\* line 111: df_person.to_excel(..., index=False, startrow=start_row): the
\* header row, then one row per record; columns as ordered at lines 76-85
ToExcel(df_person) ==
    LET header == <<"Location", "Date", "Start", "End", "Hours", "Details">>
        RowCells(i) ==
            LET r == df_person[i]
            IN  << Cell(start_row + i, 0, Txt(r.Location), "", 111),
                   Cell(start_row + i, 1, Chars(r.Date), "", 111),
                   Cell(start_row + i, 2, Chars(r.Start), "", 111),
                   Cell(start_row + i, 3, Chars(r.End), "", 111),
                   Cell(start_row + i, 4, Number(r.Hours * 100), "", 111) >>
        RECURSIVE Rows(_)
        Rows(i) == IF i > Len(df_person) THEN <<>> ELSE RowCells(i) \o Rows(i + 1)
    IN  [c \in 1..6 |-> Cell(start_row, c - 1, Txt(header[c]), "header", 111)]
          \o Rows(1)

\* lines 132-133
total_row_idx(n) == start_row + n + 1
rate_row_idx(n) == total_row_idx(n) + 1

\* line 147 and line 148: the item rows as the SUM names them
first_excel_row(data_start) == data_start + 1
MutLastExcelRowIsTotalRow(data_start, count) == data_start + count + 1
last_excel_row(data_start, count) == data_start + count

\* lines 135-156; `sec` only tags the cells
write_location_section(section_row, header_title, given, sec) ==
    LET placeholders == IF given = <<>> THEN <<"Apt X", "Apt X">> ELSE given
        section_headers == <<"Date", "Check-in", "Check-out", "Rate $", "Details">>
        data_start == section_row + 1
        total_row == data_start + Len(placeholders)
        first == first_excel_row(data_start)
        last == last_excel_row(data_start, Len(placeholders))
    IN  [writes |->
            <<SecCell(section_row, 0, Txt(header_title), "header", 137, sec)>>
            \o [c \in 1..5 |->
                    SecCell(section_row, c, Txt(section_headers[c]), "header",
                            140, sec)]
            \o [i \in 1..Len(placeholders) |->
                    SecCell(data_start + i - 1, 0, Txt(placeholders[i]), "",
                            144, sec)]
            \o << SecCell(total_row, 0, Txt("Total $"), "", 149, sec),
                  SecCell(total_row, 4,
                          [t |-> "fml", f |-> "sum", col |-> "E",
                           lo |-> first, hi |-> last],
                          "currency", 150, sec) >>,
         total_row |-> total_row,
         next_start |-> total_row + 2,
         data_start_excel |-> first,
         data_end_excel |-> last]

\* lines 158-174: the sections one below the other
RECURSIVE LayoutSections(_, _, _, _)
LayoutSections(defs, i, current_section_row, acc) ==
    IF i > Len(defs) THEN [acc EXCEPT !.next = current_section_row]
    ELSE LET section_info ==
                 write_location_section(current_section_row, defs[i].header,
                                        defs[i].placeholders, i)
         IN  LayoutSections(defs, i + 1, section_info.next_start,
                 [writes |-> acc.writes \o section_info.writes,
                  section_totals_excel_rows |->
                      Append(acc.section_totals_excel_rows,
                             section_info.total_row + 1),
                  section_clean_ranges |->
                      Append(acc.section_clean_ranges,
                             <<section_info.data_start_excel,
                               section_info.data_end_excel>>),
                  next |-> acc.next])

Sections(inp, n) ==
    LayoutSections(inp.section_definitions, 1, rate_row_idx(n) + 4,
                   [writes |-> <<>>, section_totals_excel_rows |-> <<>>,
                    section_clean_ranges |-> <<>>, next |-> 0])

----------------------------------------------------------------------------
(* Rate lookup and the exclusion rule, lines 202-232.                      *)

NoStart == [isnone |-> TRUE, ts |-> NaT]

\* lines 203-211 without float(): a person without an entry keeps the defaults
Lookup(rd, person_id) ==
    IF person_id \in DOMAIN rd
    THEN [rate |-> rd[person_id].RATE,
          start_date |-> [isnone |-> FALSE, ts |-> rd[person_id].START],
          extra_val |-> rd[person_id].EXTRA]
    ELSE [rate |-> Number(0), start_date |-> NoStart, extra_val |-> 0]

\* line 208: float(RATE) raises ValueError on text that is no number
RateRaises(rd, person_id) ==
    person_id \in DOMAIN rd /\ rd[person_id].RATE.t # "num"

\* datetime.now() as a timestamp
TodayTs(today) ==
    [ok |-> TRUE, day |-> Ordinal(today.y, today.m, today.d), sec |-> today.sec]

\* (today - start_date).days: whole days, rounded down
DaysSince(today, ts) ==
    SecondsBetween(TodayTs(today), ts) \div 86400

MutRuleWithin28Inclusive(start_date, today) ==
    /\ ~start_date.isnone
    /\ \/ start_date.ts.ok /\ DaysSince(today, start_date.ts) <= 28
       \/ today.m = 1

\* lines 220-221: `start_date is not None`, which NaT passes, and then
\* `(today - start_date).days < 28 or today.month == 1`, where the days of
\* a NaT difference are nan and compare False
RuleApplies(start_date, today) ==
    /\ ~start_date.isnone
    /\ \/ start_date.ts.ok /\ DaysSince(today, start_date.ts) < 28
       \/ today.m = 1

\* lines 219-232
Exclusion(start_date, extra_val, today) ==
    IF RuleApplies(start_date, today)
    THEN [extras_amount |-> 0, exclusion_amount |-> 0, show_red |-> TRUE]
    ELSE [extras_amount |-> extra_val, exclusion_amount |-> 500 * 10000,
          show_red |-> FALSE]

----------------------------------------------------------------------------
(* One person's sheet, lines 105-290.                                      *)

\* line 191
total_rate_row_idx(n) == rate_row_idx(n) + 1

\* lines 177-182, 240, 248-249: the summary block below the last section
SummaryBlock(summary_header_row) ==
    LET extras_row_idx == summary_header_row + 1
        subtotal_row_idx == extras_row_idx + 1
        exclusion_row_idx == extras_row_idx + 2
        withheld_row_idx == exclusion_row_idx + 1
        total_dollar_idx == withheld_row_idx + 2
    IN  [summary_header_row |-> summary_header_row,
         extras_row_idx |-> extras_row_idx,
         subtotal_row_idx |-> subtotal_row_idx,
         exclusion_row_idx |-> exclusion_row_idx,
         withheld_row_idx |-> withheld_row_idx,
         total_dollar_idx |-> total_dollar_idx]

\* line 195: =E{rate_row_idx+1} * E{total_row_idx+1}
TotalRateFormula(n) ==
    [t |-> "fml", f |-> "mul", a |-> <<"E", rate_row_idx(n) + 1>>,
     b |-> <<"E", total_row_idx(n) + 1>>]

RECURSIVE SumHours(_)
SumHours(df_person) ==
    IF df_person = <<>> THEN 0
    ELSE Head(df_person).Hours + SumHours(Tail(df_person))

\* line 198: round(df_person['Hours'].sum(), 2), in hundredths
total_hours(df_person) == SumHours(df_person)

\* lines 121-126: a date 'MM-DD-YYYY' in the input file's name is the last
\* day of the period, which starts 6 days before it
PeriodWrites(inp) ==
    IF inp.file_date = <<>> THEN <<>>
    ELSE LET end_date == Ordinal(inp.file_date[3], inp.file_date[1],
                                 inp.file_date[2])
             start_date == end_date - 6
         IN  << Cell(1, 0, [t |-> "period", from |-> start_date, to |-> end_date],
                     "", 125),
                Cell(2, 0, Blank, "", 126) >>

\* lines 111-200: what is written before the rate is looked up
WritesBeforeLookup(p, inp) ==
    LET n == Len(p.df_person)
        sec == Sections(inp, n)
        blk == SummaryBlock(sec.next)
    IN  ToExcel(p.df_person)
        \o << Cell(0, 0, [t |-> "info", id |-> p.id, name |-> p.name],
                   "light_green", 117),
              Cell(0, 1, Blank, "light_green", 118) >>
        \o PeriodWrites(inp)
        \o sec.writes
        \o << Cell(blk.summary_header_row, 0, Txt("Summary"), "header", 179),
              Cell(blk.subtotal_row_idx, 0, Txt("Subtotal $"), "", 183),
              Cell(rate_row_idx(n), 0, Txt("Rate $"), "", 192),
              Cell(rate_row_idx(n), 4, Number(0), "currency", 193),
              Cell(total_rate_row_idx(n), 0, Txt("Total $"), "", 194),
              Cell(total_rate_row_idx(n), 4, TotalRateFormula(n), "currency", 195),
              Cell(total_row_idx(n), 0, Txt("Total hours"), "", 199),
              Cell(total_row_idx(n), 4, Number(total_hours(p.df_person) * 100),
                   "", 200) >>

MutWithheldWhenLimitIsZero(exclusion_excel_row, subtotal_excel_row) ==
    [t |-> "fml", f |-> "withheld", limit |-> 0,
     excl |-> <<"E", exclusion_excel_row>>, sub |-> <<"E", subtotal_excel_row>>]

\* line 255: =IF(E{exclusion}=500,ROUNDDOWN(E{subtotal}*0.10,2),0)
withheld_formula(exclusion_excel_row, subtotal_excel_row) ==
    [t |-> "fml", f |-> "withheld", limit |-> 500 * 10000,
     excl |-> <<"E", exclusion_excel_row>>, sub |-> <<"E", subtotal_excel_row>>]

\* line 263: =E{subtotal} - E{withheld}
final_total_formula(total_excel_row, withheld_excel_row) ==
    [t |-> "fml", f |-> "minus", a |-> <<"E", total_excel_row>>,
     b |-> <<"E", withheld_excel_row>>]

\* lines 267-269: =E{total rate} + E{section total}... + E{extras}
subtotal_formula(n, section_totals_excel_rows, extras_excel_row) ==
    [t |-> "fml", f |-> "plus",
     refs |-> <<<<"E", total_rate_row_idx(n) + 1>>>>
              \o [i \in 1..Len(section_totals_excel_rows) |->
                      <<"E", section_totals_excel_rows[i]>>]
              \o <<<<"E", extras_excel_row>>>>]

\* lines 213-270: what is written once the rate is known
WritesAfterLookup(p, inp, rd) ==
    LET n == Len(p.df_person)
        sec == Sections(inp, n)
        blk == SummaryBlock(sec.next)
        found == Lookup(rd, p.id)
        ex == Exclusion(found.start_date, found.extra_val, inp.today)
    IN  << Cell(rate_row_idx(n), 4, found.rate, "currency", 213),
           Cell(blk.extras_row_idx, 0, Txt("Extras $"), "", 216),
           Cell(blk.extras_row_idx, 4, Number(ex.extras_amount), "currency", 234),
           Cell(blk.exclusion_row_idx, 0,
                Txt("Annual withheld, incl. today $ (limit $500)"), "", 241),
           Cell(blk.exclusion_row_idx, 4, Number(ex.exclusion_amount),
                IF ex.show_red THEN "soft_red" ELSE "currency",
                IF ex.show_red THEN 243 ELSE 245),
           Cell(blk.withheld_row_idx, 0, Txt("10% withheld today $"), "", 251),
           Cell(blk.withheld_row_idx, 4,
                withheld_formula(blk.exclusion_row_idx + 1,
                                 blk.subtotal_row_idx + 1),
                "currency", 256),
           Cell(blk.total_dollar_idx, 0, Txt("Total $"), "", 259),
           Cell(blk.total_dollar_idx, 4,
                final_total_formula(blk.subtotal_row_idx + 1,
                                    blk.withheld_row_idx + 1),
                "light_green_currency", 264),
           Cell(blk.subtotal_row_idx, 4,
                subtotal_formula(n, sec.section_totals_excel_rows,
                                 blk.extras_row_idx + 1),
                "currency", 270) >>

MutCleansCountsHeaderRow(n) == <<"B", start_row + 1, start_row + n + 1>>

\* lines 277-280: the daily table's dates, COUNTA(B{start}:B{end})
main_clean_range(n) == <<"B", start_row + 2, start_row + n + 1>>

\* lines 273-290: the person's Summary row
SummaryEntry(p, inp) ==
    LET n == Len(p.df_person)
        sec == Sections(inp, n)
        blk == SummaryBlock(sec.next)
        sheet_name == SheetName(p)
    IN  [label |-> sheet_name,
         hours_cell |-> [t |-> "fml", f |-> "ref", sheet |-> sheet_name,
                         a |-> <<"E", total_row_idx(n) + 1>>],
         cleans_formula |->
            [t |-> "fml", f |-> "cleans", sheet |-> sheet_name,
             main |-> IF n > 0 THEN <<main_clean_range(n)>> ELSE <<>>,
             secs |-> [i \in 1..Len(sec.section_clean_ranges) |->
                          <<"E", sec.section_clean_ranges[i][1],
                            sec.section_clean_ranges[i][2]>>]],
         total_cell |-> [t |-> "fml", f |-> "ref", sheet |-> sheet_name,
                         a |-> <<"E", blk.total_dollar_idx + 1>>]]

----------------------------------------------------------------------------
(* The Summary sheet, lines 292-307.                                       *)

\* lines 305-307: =SUM(B2:B{total_row})
summary_sum(col, total_row) ==
    [t |-> "fml", f |-> "sum", col |-> col, lo |-> 2, hi |-> total_row]

SummaryWrites(entries) ==
    LET EntryCells(idx) ==
            << Cell(idx, 0, Chars(entries[idx].label), "", 298),
               Cell(idx, 1, entries[idx].hours_cell, "", 299),
               Cell(idx, 2, entries[idx].cleans_formula, "", 300),
               Cell(idx, 3, entries[idx].total_cell, "currency", 301) >>
        RECURSIVE Rows(_)
        Rows(idx) == IF idx > Len(entries) THEN <<>> ELSE EntryCells(idx) \o Rows(idx + 1)
        total_row == Len(entries) + 1
    IN  << Cell(0, 0, Txt("Person"), "header", 293),
           Cell(0, 1, Txt("Total Hours"), "header", 294),
           Cell(0, 2, Txt("Total Cleans"), "header", 295),
           Cell(0, 3, Txt("Total $"), "header", 296) >>
        \o Rows(1)
        \o (IF entries # <<>>
            THEN << Cell(total_row, 0, Txt("All sheets total"), "header", 304),
                    Cell(total_row, 1, summary_sum("B", total_row), "", 305),
                    Cell(total_row, 2, summary_sum("C", total_row), "", 306),
                    Cell(total_row, 3, summary_sum("D", total_row),
                         "light_green_currency", 307) >>
            ELSE <<>>)

----------------------------------------------------------------------------
(* The run.                                                                *)

Absent == [saved |-> FALSE, sheets |-> <<>>, order |-> <<>>]
Saved(sh, order) == [saved |-> TRUE, sheets |-> sh, order |-> order]

Start(inputs) ==
    /\ input \in inputs
    /\ pc = "start"
    /\ rates_dict = <<>>
    /\ df = <<>>
    /\ records = <<>>
    /\ persons = <<>>
    /\ k = 0
    /\ sheets = <<>>
    /\ sheet_order = <<>>
    /\ summary_entries = <<>>
    /\ out_file = Absent

\* lines 8-10: no input file, sys.exit(1)
InputMissing ==
    /\ pc = "start"
    /\ ~input.csv_exists
    /\ pc' = "exit"
    /\ UNCHANGED <<input, rates_dict, df, records, persons, k, sheets,
                   sheet_order, summary_entries, out_file>>

\* lines 13-33: read the punch CSV and the rate table
LoadInputs ==
    /\ pc = "start"
    /\ input.csv_exists
    /\ df' = input.rows
    /\ rates_dict' = LoadRates(input)
    /\ pc' = "normalize"
    /\ UNCHANGED <<input, records, persons, k, sheets, sheet_order,
                   summary_entries, out_file>>

\* line 36 (or line 52): a required column is missing, KeyError
MissingColumn ==
    /\ pc = "normalize"
    /\ ~input.has_columns
    /\ pc' = "error"
    /\ UNCHANGED <<input, rates_dict, df, records, persons, k, sheets,
                   sheet_order, summary_entries, out_file>>

\* lines 35-49
Normalize ==
    /\ pc = "normalize"
    /\ input.has_columns
    /\ df' = DropNa(WithDatetime(df))
    /\ pc' = "aggregate"
    /\ UNCHANGED <<input, rates_dict, records, persons, k, sheets, sheet_order,
                   summary_entries, out_file>>

\* lines 51-69
Aggregate ==
    /\ pc = "aggregate"
    /\ records' = BuildRecords(df)
    /\ pc' = "organize"
    /\ UNCHANGED <<input, rates_dict, df, persons, k, sheets, sheet_order,
                   summary_entries, out_file>>

\* lines 72-74: pd.DataFrame([]) has no columns, so groupby(['Person ID',
\* 'Person Name']) raises KeyError when there is no record
OrganizeEmpty ==
    /\ pc = "organize"
    /\ records = <<>>
    /\ pc' = "error"
    /\ UNCHANGED <<input, rates_dict, df, records, persons, k, sheets,
                   sheet_order, summary_entries, out_file>>

\* lines 71-86
Organize ==
    /\ pc = "organize"
    /\ records # <<>>
    /\ persons' = BuildPersons(records)
    /\ pc' = "open"
    /\ UNCHANGED <<input, rates_dict, df, records, k, sheets, sheet_order,
                   summary_entries, out_file>>

\* lines 89-103: enter the ExcelWriter block; the Summary sheet is the first
\* tab.  out_file records saved workbooks only.
OpenWriter ==
    /\ pc = "open"
    /\ sheets' = (SummaryName :> <<>>)
    /\ sheet_order' = <<SummaryName>>
    /\ summary_entries' = <<>>
    /\ k' = 1
    /\ pc' = "layout"
    /\ UNCHANGED <<input, rates_dict, df, records, persons, out_file>>

\* line 111: to_excel writes on the sheet of that name, a new tab unless the
\* writer already holds one
SheetFor(sh, sheet_name) ==
    IF sheet_name \in DOMAIN sh THEN sh[sheet_name] ELSE <<>>
TabsWith(sh, order, sheet_name) ==
    IF sheet_name \in DOMAIN sh THEN order ELSE Append(order, sheet_name)

\* lines 105-290: one pass of the loop
LayoutPerson ==
    /\ pc = "layout"
    /\ k <= Len(persons)
    /\ ~RateRaises(rates_dict, persons[k].id)
    /\ LET p == persons[k]
           sheet_name == SheetName(p)
       IN  /\ sheets' =
                (sheet_name :>
                    ApplyWrites(SheetFor(sheets, sheet_name),
                                WritesBeforeLookup(p, input)
                                  \o WritesAfterLookup(p, input, rates_dict)))
                @@ sheets
           /\ sheet_order' = TabsWith(sheets, sheet_order, sheet_name)
           /\ summary_entries' = Append(summary_entries, SummaryEntry(p, input))
    /\ k' = k + 1
    /\ UNCHANGED <<input, pc, rates_dict, df, records, persons, out_file>>

\* line 208 raises inside the `with` block: ExcelWriter.__exit__ closes the
\* writer, which saves the workbook as it stands, and the error ends the run
LayoutRaises ==
    /\ pc = "layout"
    /\ k <= Len(persons)
    /\ RateRaises(rates_dict, persons[k].id)
    /\ LET p == persons[k]
           sheet_name == SheetName(p)
       IN  /\ sheets' =
                (sheet_name :>
                    ApplyWrites(SheetFor(sheets, sheet_name),
                                WritesBeforeLookup(p, input)))
                @@ sheets
           /\ sheet_order' = TabsWith(sheets, sheet_order, sheet_name)
    /\ out_file' = Saved(sheets', sheet_order')
    /\ pc' = "error"
    /\ UNCHANGED <<input, rates_dict, df, records, persons, k, summary_entries>>

\* lines 292-309
PopulateSummary ==
    /\ pc = "layout"
    /\ k > Len(persons)
    /\ sheets' = [sheets EXCEPT
                    ![SummaryName] = ApplyWrites(@, SummaryWrites(summary_entries))]
    /\ pc' = "close"
    /\ UNCHANGED <<input, rates_dict, df, records, persons, k, sheet_order,
                   summary_entries, out_file>>

\* leaving the `with` block of line 89 saves the workbook; line 311
CloseWriter ==
    /\ pc = "close"
    /\ out_file' = Saved(sheets, sheet_order)
    /\ pc' = "done"
    /\ UNCHANGED <<input, rates_dict, df, records, persons, k, sheets,
                   sheet_order, summary_entries>>

Next ==
    \/ InputMissing
    \/ LoadInputs
    \/ MissingColumn
    \/ Normalize
    \/ Aggregate
    \/ OrganizeEmpty
    \/ Organize
    \/ OpenWriter
    \/ LayoutPerson
    \/ LayoutRaises
    \/ PopulateSummary
    \/ CloseWriter

----------------------------------------------------------------------------
(* Checked inputs.                                                         *)

P1 == [id |-> <<69, 49>>, name |-> <<65, 110, 110>>]    \* E1, Ann
P2 == [id |-> <<69, 50>>, name |-> <<66, 111, 98>>]     \* E2, Bob

Punch(p, date, time) ==
    [pid |-> p.id, pname |-> p.name, date |-> date, time |-> time]

\* lines 160-164
section_definitions ==
    << [header |-> "Mango Villas", placeholders |-> <<"Apt X", "Apt X">>],
       [header |-> "Casa Damisela", placeholders |-> <<"Apt X", "Apt X">>],
       [header |-> "Other", placeholders |-> <<"Details here", "">>] >>

\* the same three sections with other placeholder counts
SectionsWith(counts) ==
    [i \in 1..3 |->
        [header |-> section_definitions[i].header,
         placeholders |-> [j \in 1..counts[i] |-> "Apt X"]]]

RateRow(p, rate, start, extra) ==
    [ID |-> p.id, RATE |-> rate, START |-> start, EXTRA |-> extra]

BaseInput ==
    [csv_exists |-> TRUE, has_columns |-> TRUE, file_date |-> <<>>,
     rows |-> <<>>,
     rates_exists |-> FALSE, rates |-> <<>>,
     today |-> [y |-> 2025, m |-> 3, d |-> 10, sec |-> 36000],
     section_definitions |-> section_definitions]

\* runs that end in an error: no input file; a required column missing; no
\* punch row; a RATE that is no number for the second of two persons
FailingInputs ==
    { [BaseInput EXCEPT !.csv_exists = FALSE],
      BaseInput,
      [BaseInput EXCEPT !.has_columns = FALSE],
      [BaseInput EXCEPT
          !.rows = << Punch(P1, IsoStr(2025, 3, 3), TimeStr(8, 0, 0)),
                      Punch(P2, IsoStr(2025, 3, 3), TimeStr(9, 0, 0)) >>,
          !.rates_exists = TRUE,
          !.rates = << RateRow(P2, [t |-> "txt"], <<>>, 0) >>] }

\* aggregation runs: up to MaxRows punches; those of P1 on one day in both
\* encodings and on a later day of the next year in the US encoding, those
\* of P2 on the first day
PunchDates == {IsoStr(2024, 12, 30), UsStr(2024, 12, 30), UsStr(2025, 1, 2)}
PunchTimes == {TimeStr(8, 0, 0), TimeStr(16, 20, 0)}
PunchRows ==
    {Punch(P1, d, t) : d \in PunchDates, t \in PunchTimes}
      \cup {Punch(P2, IsoStr(2024, 12, 30), t) : t \in PunchTimes}
AggregationInputs ==
    {[BaseInput EXCEPT !.rows = r] :
        r \in UNION {[1..n -> PunchRows] : n \in 0..MaxRows}}

\* layout runs: an input file named for the week ending 03-09-2025, n1 days
\* of P1 and n2 days of P2 with two punches each, any placeholder counts, and
\* P1 without and with a rate entry
RECURSIVE DaysOf(_, _)
DaysOf(p, n) ==
    IF n = 0 THEN <<>>
    ELSE DaysOf(p, n - 1)
         \o << Punch(p, IsoStr(2025, 3, n), TimeStr(16, 20, 0)),
               Punch(p, IsoStr(2025, 3, n), TimeStr(8, 0, 0)) >>
RateTables ==
    { <<>>,
      << RateRow(P1, Number(125000), <<>>, 250000) >>,
      << RateRow(P1, Number(125000), IsoStr(2025, 3, 1), 250000) >>,
      << RateRow(P1, Number(100000), IsoStr(2024, 6, 1), -123450) >>,
      << RateRow(P1, Number(0), IsoStr(2024, 6, 1), -123450) >> }
LayoutInputs ==
    {[BaseInput EXCEPT
        !.file_date = <<3, 9, 2025>>,
        !.rows = DaysOf(P1, n1) \o DaysOf(P2, n2),
        !.rates_exists = (rt # <<>>),
        !.rates = rt,
        !.section_definitions = SectionsWith(<<c[1], c[2], c[3]>>)] :
        n1 \in 0..MaxDays, n2 \in 0..1, rt \in RateTables,
        c \in (0..MaxPlaceholders) \X (0..MaxPlaceholders) \X (0..MaxPlaceholders)}

\* exclusion-rule runs: one punch of P1; no entry, or an entry whose START
\* is empty, unreadable ('??'), a date or a datetime; today at midnight and
\* at noon of each day from 2024-12-15 on
Todays ==
    {[y |-> y, m |-> m, d |-> d, sec |-> sec] :
        y \in {2024, 2025}, m \in {1, 2, 3, 12}, d \in 1..31, sec \in {0, 43200}}
CheckedToday(t) ==
    /\ ValidDate(t.y, t.m, t.d)
    /\ Ordinal(t.y, t.m, t.d) >= Ordinal(2024, 12, 15)
    /\ Ordinal(t.y, t.m, t.d) <= Ordinal(2024, 12, 15) + MaxTodayOffset
Starts ==
    { <<>>, <<63, 63>>,
      IsoStr(2024, 11, 1), IsoStr(2024, 12, 20), IsoStr(2025, 1, 20),
      IsoStr(2025, 1, 20) \o <<32>> \o TimeStr(18, 0, 0) }
ExclusionInputs ==
    {[BaseInput EXCEPT
        !.rows = << Punch(P1, IsoStr(2024, 12, 10), TimeStr(8, 0, 0)) >>,
        !.rates_exists = (rt # <<>>),
        !.rates = rt,
        !.today = t] :
        t \in {x \in Todays : CheckedToday(x)},
        rt \in {<<>>} \cup {<< RateRow(P1, Number(125000), st, 250000) >> :
                              st \in Starts}}

\* parsing runs: up to MaxRows punches of P1 and P2, each person with a row
\* that parses, one whose date is no day of the calendar and one whose date
\* is in neither accepted format
ParsingRows ==
    { Punch(P1, IsoStr(2025, 3, 3), TimeStr(8, 0, 0)),
      Punch(P1, IsoStr(2025, 2, 30), TimeStr(8, 0, 0)),
      Punch(P2, UsStr(2025, 3, 4), TimeStr(9, 0, 0)),
      Punch(P2, <<51, 47, 52, 47, 50, 53>>, TimeStr(9, 0, 0)) }    \* 3/4/25
ParsingInputs ==
    {[BaseInput EXCEPT !.rows = r] :
        r \in UNION {[1..n -> ParsingRows] : n \in 0..MaxRows}}

\* label runs: persons whose '<id> - <name>' is short (P1), is 32 characters
\* long and differs from another's in the last one only (L1, L2), is 32
\* characters long and differs in the id (L3), or reads 'A - B - C' with the
\* id ending at the first or at the second dash (D1, D2); each person absent
\* or with some days of punches
LongName(last) == [j \in 1..26 |-> 78] \o <<last>>             \* NN...N?
L1 == [id |-> <<69, 51>>, name |-> LongName(97)]                \* E3
L2 == [id |-> <<69, 51>>, name |-> LongName(98)]                \* E3
L3 == [id |-> <<69, 52>>, name |-> LongName(97)]                \* E4
D1 == [id |-> <<65>>, name |-> <<66, 32, 45, 32, 67>>]          \* A, B - C
D2 == [id |-> <<65, 32, 45, 32, 66>>, name |-> <<67>>]          \* A - B, C
LabelInputs ==
    {[BaseInput EXCEPT
        !.rows = DaysOf(P1, n[1]) \o DaysOf(L1, n[2]) \o DaysOf(L2, n[3])
                   \o DaysOf(L3, n[4]) \o DaysOf(D1, n[5]) \o DaysOf(D2, n[6])] :
        n \in (0..1) \X (0..MaxDays) \X (0..MaxDays) \X (0..1) \X (0..1)
                 \X (0..1)}

Init == Start(LayoutInputs \cup FailingInputs)
Spec == Init /\ [][Next]_vars

InitAggregation == Start(AggregationInputs \cup FailingInputs)
SpecAggregation == InitAggregation /\ [][Next]_vars

InitExclusion == Start(ExclusionInputs \cup FailingInputs)
SpecExclusion == InitExclusion /\ [][Next]_vars

InitLabels == Start(LabelInputs \cup FailingInputs)
SpecLabels == InitLabels /\ [][Next]_vars

InitParsing == Start(ParsingInputs \cup FailingInputs)
SpecParsing == InitParsing /\ [][Next]_vars

----------------------------------------------------------------------------
(* Reading a workbook as the spreadsheet program does.                     *)

ColIdx(letter) ==
    CASE letter = "A" -> 0 [] letter = "B" -> 1 [] letter = "C" -> 2
      [] letter = "D" -> 3 [] letter = "E" -> 4 [] letter = "F" -> 5

\* a reference names a column letter and a row counted from 1
RefPos(ref) == <<ref[2] - 1, ColIdx(ref[1])>>

Written(sheet, pos) == pos \in DOMAIN sheet
\* xlsxwriter writes no cell for an empty string or a blank without content
NonBlank(sheet, pos) ==
    /\ Written(sheet, pos)
    /\ sheet[pos].v.t # "blank"
    /\ ~(sheet[pos].v.t = "txt" /\ sheet[pos].v.s = "")

\* ROUNDDOWN(x * 0.10, 2): toward zero, to a multiple of 0.01
RoundDownTenth(x) ==
    IF x >= 0 THEN (x \div 1000) * 100 ELSE -(((-x) \div 1000) * 100)

RECURSIVE Value(_, _, _)
RECURSIVE SumRefs(_, _, _)
RECURSIVE SumRange(_, _, _, _, _)
\* the value of cell pos of sheet `name`: text and empty cells count 0
Value(wb, name, pos) ==
    IF ~Written(wb[name], pos) THEN 0
    ELSE LET v == wb[name][pos].v
         IN  IF v.t = "num" THEN v.n
             ELSE IF v.t # "fml" THEN 0
             ELSE CASE v.f = "mul" ->
                         \* both factors have 2 decimals in the checked inputs
                         (Value(wb, name, RefPos(v.a)) \div 100)
                           * (Value(wb, name, RefPos(v.b)) \div 100)
                    [] v.f = "sum" ->
                         SumRange(wb, name, ColIdx(v.col), v.lo, v.hi)
                    [] v.f = "plus" -> SumRefs(wb, name, v.refs)
                    [] v.f = "minus" ->
                         Value(wb, name, RefPos(v.a)) - Value(wb, name, RefPos(v.b))
                    [] v.f = "withheld" ->
                         IF Value(wb, name, RefPos(v.excl)) = v.limit
                         THEN RoundDownTenth(Value(wb, name, RefPos(v.sub)))
                         ELSE 0
                    [] v.f = "ref" -> Value(wb, v.sheet, RefPos(v.a))
                    [] v.f = "cleans" ->
                         LET Count(rg) ==
                                 Cardinality({r \in rg[2]..rg[3] :
                                     NonBlank(wb[v.sheet],
                                              <<r - 1, ColIdx(rg[1])>>)})
                             RECURSIVE Total(_)
                             Total(rgs) ==
                                 IF rgs = <<>> THEN 0
                                 ELSE Count(Head(rgs)) + Total(Tail(rgs))
                         IN  \* a count, kept in the cells' fixed point
                             (Total(v.main) + Total(v.secs)) * 10000
SumRefs(wb, name, refs) ==
    IF refs = <<>> THEN 0
    ELSE Value(wb, name, RefPos(Head(refs))) + SumRefs(wb, name, Tail(refs))
SumRange(wb, name, col, lo, hi) ==
    IF lo > hi THEN 0
    ELSE Value(wb, name, <<lo - 1, col>>) + SumRange(wb, name, col, lo + 1, hi)

\* the rows of a sheet whose cell in column col was last written by source
\* line `line` for section `sec`
RowsAt(sheet, col, line, sec) ==
    {pos[1] : pos \in {q \in DOMAIN sheet :
                          q[2] = col /\ sheet[q].at = <<line, sec>>}}
\* the cell a reference resolves to was last written by `line` (section sec)
RefersTo(sheet, ref, line, sec) ==
    /\ Written(sheet, RefPos(ref))
    /\ sheet[RefPos(ref)].at = <<line, sec>>
\* the row's label in column A
LabelIs(sheet, row, text) ==
    /\ Written(sheet, <<row, 0>>)
    /\ sheet[<<row, 0>>].v = Txt(text)
TheCell(sheet, col, line, sec) ==
    sheet[<<CHOOSE r \in RowsAt(sheet, col, line, sec) : TRUE, col>>]

\* the persons whose pass of the loop is complete
Laid == IF k = 0 THEN {} ELSE {i \in 1..Len(persons) : i < k}
SheetOf(i) == sheets[SheetName(persons[i])]

----------------------------------------------------------------------------
(* Claims about the daily aggregation (SpecAggregation).                   *)

Aggregated == pc \in {"organize", "open", "layout", "close", "done"}

\* the parsed datetimes of the valid punches with one group key
PunchesOf(key) ==
    {df[j].Datetime : j \in {x \in 1..Len(df) : GroupKey(df[x]) = key}}
PunchCount(key) == Cardinality({x \in 1..Len(df) : GroupKey(df[x]) = key})
Earliest(S) == CHOOSE a \in S : \A b \in S : SecondsBetween(a, b) <= 0
Latest(S) == CHOOSE a \in S : \A b \in S : SecondsBetween(a, b) >= 0
\* the calendar day a 'Punch Date' text denotes
CalendarDay(date) == ParseDatetime(date, TimeStr(0, 0, 0)).day

\* C4: every group of valid punches of one person with one 'Punch Date' has
\* one DayRecord, whose Start is the earliest and End the latest punch of
\* the group, Start <= End, Hours >= 0 the seconds between them over 3600
\* rounded to 2 decimals, and Start = End and Hours = 0 for a single punch.
C4_DayRecordOfGroup ==
    Aggregated =>
        /\ \A j \in 1..Len(df) :
              Cardinality({i \in 1..Len(records) :
                  <<records[i].pid, records[i].pname, records[i].Date>>
                    = GroupKey(df[j])}) = 1
        /\ \A i \in 1..Len(records) :
              LET r == records[i]
                  key == <<r.pid, r.pname, r.Date>>
                  G == PunchesOf(key)
                  seconds == SecondsBetween(Latest(G), Earliest(G))
              IN  /\ G # {}
                  /\ r.Start = StrfTime(Earliest(G))
                  /\ r.End = StrfTime(Latest(G))
                  /\ ~StrLess(r.End, r.Start)
                  /\ r.Hours >= 0
                  /\ 36 * r.Hours - seconds <= 18
                  /\ seconds - 36 * r.Hours <= 18
                  /\ PunchCount(key) = 1 => (r.Start = r.End /\ r.Hours = 0)

\* a day whose later punch comes first in the CSV, 8 h 20 min apart: 8.33
C4_Witness ==
    /\ Aggregated
    /\ \E i \in 1..Len(records) :
          /\ records[i].Hours = 833
          /\ records[i].Start = TimeStr(8, 0, 0)
          /\ df[1].time = TimeStr(16, 20, 0)
          /\ GroupKey(df[1]) = <<records[i].pid, records[i].pname, records[i].Date>>
    /\ \E i \in 1..Len(records) : records[i].Hours = 0

\* C5: punches of one person on one calendar day, whatever their encoding,
\* fall into one group: the records hold one DayRecord per person and
\* calendar day, from the earliest to the latest of all those punches.
C5_OneRecordPerCalendarDay ==
    Aggregated =>
        \A i \in 1..Len(records) :
            LET r == records[i]
                same == {j \in 1..Len(df) :
                            /\ df[j].pid = r.pid /\ df[j].pname = r.pname
                            /\ df[j].Datetime.day = CalendarDay(r.Date)}
                all == {df[j].Datetime : j \in same}
            IN  /\ \A j \in 1..Len(records) :
                      ( /\ records[j].pid = r.pid /\ records[j].pname = r.pname
                        /\ CalendarDay(records[j].Date) = CalendarDay(r.Date) )
                      => j = i
                /\ r.Start = StrfTime(Earliest(all))
                /\ r.End = StrfTime(Latest(all))

\* C6: in every person's table consecutive rows are in calendar order, the
\* upper row's day strictly earlier than the lower row's.
C6_RowsInCalendarOrder ==
    \A i \in 1..Len(persons) :
        \A j \in 1..(Len(persons[i].df_person) - 1) :
            CalendarDay(persons[i].df_person[j].Date)
              < CalendarDay(persons[i].df_person[j + 1].Date)

----------------------------------------------------------------------------
(* Claims about one person's sheet (Spec).                                 *)

One(sheet, col, line, sec) == Cardinality(RowsAt(sheet, col, line, sec)) = 1
ExcelRows(lo, hi) == {r - 1 : r \in lo..hi}
\* the item rows of section sec, and its 'Rate $' column
ItemRows(sheet, sec) == RowsAt(sheet, 0, 144, sec)
RateColumnOf(sheet, sec, col) ==
    \A r \in RowsAt(sheet, 0, 137, sec) :
        Written(sheet, <<r, col>>) /\ sheet[<<r, col>>].v = Txt("Rate $")
\* the rows of the daily table that hold a record
DataRows(sheet) ==
    {q[1] : q \in {x \in DOMAIN sheet :
                      x[2] = 1 /\ sheet[x].at = <<111, 0>> /\ sheet[x].v.t = "chars"}}
LimitRows(sheet) == RowsAt(sheet, 4, 243, 0) \cup RowsAt(sheet, 4, 245, 0)

\* C1: on every laid-out sheet each formula reference resolves to the cell
\* where the referenced value was written: Total $ to the Rate $ and Total
\* hours cells; each section total to exactly that section's item rows;
\* Subtotal $ to the rate-x-hours total, the three section totals and
\* Extras $; 10% withheld to the limit cell and the Subtotal; the final
\* Total $ to the Subtotal and the withheld cell; the Summary references to
\* the sheet's Total hours and final Total $ cells.
C1_ReferencesResolve ==
    \A i \in Laid :
        LET S == SheetOf(i)
            e == summary_entries[i]
        IN  /\ One(S, 4, 195, 0) /\ One(S, 4, 213, 0) /\ One(S, 4, 200, 0)
            /\ One(S, 4, 270, 0) /\ One(S, 4, 256, 0) /\ One(S, 4, 264, 0)
            /\ One(S, 4, 234, 0) /\ Cardinality(LimitRows(S)) = 1
            /\ LET f == TheCell(S, 4, 195, 0).v
               IN  /\ RefersTo(S, f.a, 213, 0)
                   /\ LabelIs(S, RefPos(f.a)[1], "Rate $")
                   /\ RefersTo(S, f.b, 200, 0)
                   /\ LabelIs(S, RefPos(f.b)[1], "Total hours")
            /\ \A sec \in 1..3 :
                  /\ One(S, 4, 150, sec)
                  /\ LET f == TheCell(S, 4, 150, sec).v
                     IN  /\ ItemRows(S, sec) # {}
                         /\ ExcelRows(f.lo, f.hi) = ItemRows(S, sec)
                         /\ RateColumnOf(S, sec, ColIdx(f.col))
            /\ LET f == TheCell(S, 4, 270, 0).v
                   row == CHOOSE r \in RowsAt(S, 4, 270, 0) : TRUE
               IN  /\ LabelIs(S, row, "Subtotal $")
                   /\ Len(f.refs) = 5
                   /\ RefersTo(S, f.refs[1], 195, 0)
                   /\ \A sec \in 1..3 : RefersTo(S, f.refs[1 + sec], 150, sec)
                   /\ RefersTo(S, f.refs[5], 234, 0)
                   /\ LabelIs(S, RefPos(f.refs[5])[1], "Extras $")
            /\ LET f == TheCell(S, 4, 256, 0).v
               IN  /\ RefPos(f.excl)[1] \in LimitRows(S)
                   /\ RefPos(f.excl)[2] = 4
                   /\ LabelIs(S, RefPos(f.excl)[1],
                              "Annual withheld, incl. today $ (limit $500)")
                   /\ RefersTo(S, f.sub, 270, 0)
            /\ LET f == TheCell(S, 4, 264, 0).v
               IN  /\ RefersTo(S, f.a, 270, 0)
                   /\ RefersTo(S, f.b, 256, 0)
                   /\ LabelIs(S, RefPos(f.b)[1], "10% withheld today $")
            /\ e.hours_cell.sheet = SheetName(persons[i])
            /\ RefersTo(S, e.hours_cell.a, 200, 0)
            /\ e.total_cell.sheet = SheetName(persons[i])
            /\ RefersTo(S, e.total_cell.a, 264, 0)
            /\ pc \in {"close", "done"} =>
                  /\ sheets[SummaryName][<<i, 1>>].v = e.hours_cell
                  /\ sheets[SummaryName][<<i, 3>>].v = e.total_cell

\* two persons laid out, one with several days, the sections with 3, 1 and
\* the default number of placeholders
C1_Witness ==
    /\ pc = "done"
    /\ Len(persons) = 2
    /\ Len(persons[1].df_person) >= 2
    /\ Len(input.section_definitions[1].placeholders) = 3
    /\ Len(input.section_definitions[2].placeholders) = 1
    /\ Len(input.section_definitions[3].placeholders) = 0
    /\ Cardinality(ItemRows(SheetOf(1), 3)) = 2

\* C8: the Total Cleans formula of every person counts the non-blank dates
\* of exactly the n rows of the daily table and, for each of the 3
\* sections, the non-blank cells of exactly its item rows in the 'Rate $'
\* column; on the generated sheet it evaluates to n.
C8_CleansFormula ==
    pc \in {"close", "done"} =>
        \A i \in Laid :
            LET S == SheetOf(i)
                n == Len(persons[i].df_person)
                f == sheets[SummaryName][<<i, 2>>].v
            IN  /\ f.f = "cleans" /\ f.sheet = SheetName(persons[i])
                /\ Len(f.main) = 1
                /\ f.main[1][1] = "B"
                /\ ExcelRows(f.main[1][2], f.main[1][3]) = DataRows(S)
                /\ Cardinality(DataRows(S)) = n
                /\ Len(f.secs) = 3
                /\ \A sec \in 1..3 :
                      /\ ExcelRows(f.secs[sec][2], f.secs[sec][3]) = ItemRows(S, sec)
                      /\ RateColumnOf(S, sec, ColIdx(f.secs[sec][1]))
                /\ Value(sheets, SummaryName, <<i, 2>>) = n * 10000

C8_Witness ==
    /\ pc = "done"
    /\ \E i \in Laid :
          /\ Len(persons[i].df_person) >= 2
          /\ Value(sheets, SummaryName, <<i, 2>>) = Len(persons[i].df_person) * 10000
    /\ \E sec \in 1..3 : Len(input.section_definitions[sec].placeholders) = 3

PosAt(sheet, col, line) ==
    <<CHOOSE r \in RowsAt(sheet, col, line, 0) : TRUE, col>>
LimitPos(sheet) == <<CHOOSE r \in LimitRows(sheet) : TRUE, 4>>
\* w is x times 0.10 cut to 2 decimals toward zero
IsTenthRoundedDown(x, w) ==
    /\ w % 100 = 0
    /\ (x >= 0 => (w >= 0 /\ 10 * w <= x /\ x < 10 * (w + 100)))
    /\ (x <= 0 => (w <= 0 /\ 10 * w >= x /\ x > 10 * (w - 100)))

\* C9: on every laid-out sheet the 10% withheld cell is 0 when the limit
\* cell is not 500 and Subtotal x 0.10 rounded toward zero to 2 decimals
\* when it is 500, and the final Total $ is Subtotal minus the withheld
\* amount; so a sheet where the rule applied has withheld 0 and Total $ =
\* Subtotal, and one where it did not has the rounded-down tenth withheld.
C9_WithheldAndTotal ==
    \A i \in Laid :
        LET S == SheetOf(i)
            name == SheetName(persons[i])
            limit == Value(sheets, name, LimitPos(S))
            sub == Value(sheets, name, PosAt(S, 4, 270))
            w == Value(sheets, name, PosAt(S, 4, 256))
            final == Value(sheets, name, PosAt(S, 4, 264))
            applied == S[LimitPos(S)].fmt = "soft_red"
        IN  /\ limit # 500 * 10000 => w = 0
            /\ limit = 500 * 10000 => IsTenthRoundedDown(sub, w)
            /\ final = sub - w
            /\ applied => (w = 0 /\ final = sub)
            /\ ~applied => (IsTenthRoundedDown(sub, w) /\ final = sub - w)
            \* the same sheet with the limit cell edited to other amounts
            /\ \A x \in {0, 4999900, 5000000, 5000100, 10000000} :
                  LET edited == [S EXCEPT ![LimitPos(S)].v = Number(x)]
                      wx == Value((name :> edited) @@ sheets, name,
                                  PosAt(S, 4, 256))
                  IN  IF x = 500 * 10000 THEN IsTenthRoundedDown(sub, wx)
                      ELSE wx = 0

\* a sheet with a negative subtotal and a withheld amount, one with a
\* positive subtotal and a withheld amount, and one where the rule applied
C9_Witness ==
    /\ pc = "done"
    /\ \E i \in Laid :
          /\ Value(sheets, SheetName(persons[i]), PosAt(SheetOf(i), 4, 270)) = -123450
          /\ Value(sheets, SheetName(persons[i]), PosAt(SheetOf(i), 4, 256)) = -12300
    /\ Len(persons[1].df_person) >= 2

----------------------------------------------------------------------------
(* Claims about the exclusion rule (SpecExclusion).                        *)

HasEntry(i) == persons[i].id \in DOMAIN rates_dict
ExtrasCell(i) == SheetOf(i)[PosAt(SheetOf(i), 4, 234)]
LimitCell(i) == SheetOf(i)[LimitPos(SheetOf(i))]
\* what the entry of the rate table asks to pay as extras, 0 without entry
ConfiguredExtra(i) == IF HasEntry(i) THEN rates_dict[persons[i].id].EXTRA ELSE 0

\* C2: a person without a known billing start date (no entry, or an entry
\* whose START is empty or unreadable) gets Extras $ = the configured extra
\* amount, the limit cell 500 and no highlight, whatever today is.
C2_NoStartDateNeverApplies ==
    \A i \in Laid :
        (~HasEntry(i) \/ ~rates_dict[persons[i].id].START.ok) =>
            /\ ExtrasCell(i).v = Number(ConfiguredExtra(i))
            /\ LimitCell(i).v = Number(500 * 10000)
            /\ LimitCell(i).fmt # "soft_red"

\* C3: with a known start date the rule applies exactly when fewer than 28
\* whole days have passed from the start date to today or today is in
\* January; then Extras $ is 0 and the limit cell 0 and highlighted,
\* otherwise Extras $ is the configured amount and the limit cell 500
\* without highlight; the limit cell is never anything else.
C3_RuleWithStartDate ==
    \A i \in Laid :
        (HasEntry(i) /\ rates_dict[persons[i].id].START.ok) =>
            LET start == rates_dict[persons[i].id].START
                \* whole days from start to today: the days between the two
                \* dates, one less when today's time of day is the earlier
                days == Ordinal(input.today.y, input.today.m, input.today.d)
                          - start.day
                          - (IF input.today.sec < start.sec THEN 1 ELSE 0)
                applies == days < 28 \/ input.today.m = 1
            IN  /\ applies =>
                      /\ ExtrasCell(i).v = Number(0)
                      /\ LimitCell(i).v = Number(0)
                      /\ LimitCell(i).fmt = "soft_red"
                /\ ~applies =>
                      /\ ExtrasCell(i).v = Number(ConfiguredExtra(i))
                      /\ LimitCell(i).v = Number(500 * 10000)
                      /\ LimitCell(i).fmt = "currency"
                /\ LimitCell(i).v \in {Number(0), Number(500 * 10000)}
                /\ (LimitCell(i).v = Number(0)) <=> applies

\* a sheet laid out in February 27 days and 18 hours after the start
C3_Witness ==
    /\ Laid # {}
    /\ HasEntry(1)
    /\ rates_dict[persons[1].id].START.day = Ordinal(2025, 1, 20)
    /\ rates_dict[persons[1].id].START.sec = 18 * 3600
    /\ input.today.m = 2 /\ input.today.d = 17 /\ input.today.sec = 43200
    /\ LimitCell(1).v = Number(0)
    /\ LimitCell(1).fmt = "soft_red"
    /\ ExtrasCell(1).v = Number(0)

----------------------------------------------------------------------------
(* Claims about the whole run (Spec).                                      *)

Ended == pc \in {"exit", "error", "done"}
RatesAreNumbers == \A j \in 1..Len(input.rates) : input.rates[j].RATE.t = "num"
RECURSIVE SumTotalHours(_)
SumTotalHours(ps) ==
    IF ps = <<>> THEN 0
    ELSE total_hours(Head(ps).df_person) * 100 + SumTotalHours(Tail(ps))

\* the Summary sheet of a saved workbook: one row per person sheet in tab
\* order, then the All sheets total row summing exactly those rows
SummaryComplete(file) ==
    LET Sm == file.sheets[SummaryName]
        tabs == Tail(file.order)
        total_row == Len(tabs) + 1
    IN  /\ Len(tabs) = Len(persons)
        /\ \A i \in 1..Len(tabs) :
              /\ Written(Sm, <<i, 0>>) /\ Sm[<<i, 0>>].v = Chars(tabs[i])
              /\ Written(Sm, <<i, 1>>) /\ Sm[<<i, 1>>].v.sheet = tabs[i]
        /\ LabelIs(Sm, total_row, "All sheets total")
        /\ \A c \in 1..3 :
              /\ Written(Sm, <<total_row, c>>)
              /\ Sm[<<total_row, c>>].v.f = "sum"
              /\ ColIdx(Sm[<<total_row, c>>].v.col) = c
              /\ ExcelRows(Sm[<<total_row, c>>].v.lo, Sm[<<total_row, c>>].v.hi)
                   = 1..Len(tabs)
        /\ Value(file.sheets, SummaryName, <<total_row, 1>>)
             = SumTotalHours(persons)

\* C7: for 0, 1 or many person sheets the run yields a Summary sheet with
\* one row per person sheet and an All sheets total row over exactly those
\* rows, whose hours cell is the sum of the sheets' Total hours (0 for none).
C7_SummaryForAnyNumberOfSheets ==
    (Ended /\ input.csv_exists /\ input.has_columns /\ RatesAreNumbers) =>
        (out_file.saved /\ SummaryComplete(out_file))

\* what holds of the code: a run that lays out at least one person
C7_SummaryWithPersons ==
    pc = "done" => (Len(persons) >= 1 /\ SummaryComplete(out_file))

\* C10: a run that ends in an error has written no workbook, and a
\* workbook is written only once every sheet and the Summary are laid out.
C10_NoPartialOutput ==
    /\ pc \in {"exit", "error"} => ~out_file.saved
    /\ out_file.saved =>
          /\ pc = "done"
          /\ k > Len(persons)
          /\ Written(out_file.sheets[SummaryName], <<0, 0>>)

----------------------------------------------------------------------------
(* Claims about the persons of a run (SpecParsing).                        *)

\* the persons of the input with at least one row whose datetime parses
ParseablePersons ==
    {<<input.rows[j].pid, input.rows[j].pname>> :
        j \in {x \in 1..Len(input.rows) :
                  ParseDatetime(input.rows[x].date, input.rows[x].time).ok}}
LabelOf(person) == SheetName([id |-> person[1], name |-> person[2]])
HasUnparseableRow ==
    \E j \in 1..Len(input.rows) :
        ~ParseDatetime(input.rows[j].date, input.rows[j].time).ok

\* C11: a run on an input with the required columns, some of whose rows do
\* not parse, never ends in an error: it completes, and the person sheets
\* and the Summary rows of the workbook are exactly those of the persons
\* with at least one parseable row, only the Summary sheet when there is
\* no such person.
C11_UnparseableRowsNeverAnError ==
    (input.csv_exists /\ input.has_columns /\ RatesAreNumbers
       /\ HasUnparseableRow) =>
        /\ pc # "error"
        /\ pc = "done" =>
              /\ out_file.saved
              /\ {out_file.order[i] : i \in 2..Len(out_file.order)}
                    = {LabelOf(q) : q \in ParseablePersons}
              /\ Len(out_file.order) = 1 + Cardinality(ParseablePersons)
              /\ {out_file.sheets[SummaryName][<<i, 0>>].v :
                      i \in 1..Len(summary_entries)}
                    = {Chars(LabelOf(q)) : q \in ParseablePersons}
              /\ Len(summary_entries) = Cardinality(ParseablePersons)

\* what holds of the code: a run in which some row parses and some row does
\* not completes with exactly the sheets of the persons that have a
\* parseable row
C11_SomeRowParses ==
    (input.csv_exists /\ input.has_columns /\ RatesAreNumbers
       /\ ParseablePersons # {}) =>
        /\ pc # "error"
        /\ pc = "done" =>
              /\ {out_file.order[i] : i \in 2..Len(out_file.order)}
                    = {LabelOf(q) : q \in ParseablePersons}
              /\ Len(summary_entries) = Cardinality(ParseablePersons)

----------------------------------------------------------------------------
(* Claims about the sheets of the persons (SpecLabels).                    *)

\* the sheet with person i's label is person i's: it carries the person's
\* info row and a daily table of the person's days
OwnSheet(i) ==
    LET S == SheetOf(i)
    IN  /\ Written(S, <<0, 0>>)
        /\ S[<<0, 0>>].v = [t |-> "info", id |-> persons[i].id,
                                         name |-> persons[i].name]
        /\ Cardinality(DataRows(S)) = Len(persons[i].df_person)

\* C12: two distinct persons of a run have distinct labels, none of them
\* 'Summary', and are laid out on two sheets: the workbook has one sheet
\* per person besides the Summary, each still holding its own person's
\* layout, and each Summary row refers to its person's own sheet and shows
\* that person's total hours.
C12_OneSheetPerPerson ==
    /\ \A i \in 1..Len(persons) : SheetName(persons[i]) # SummaryName
    /\ \A i \in 1..Len(persons) : \A j \in 1..Len(persons) :
          i # j => SheetName(persons[i]) # SheetName(persons[j])
    /\ pc = "layout" => Len(sheet_order) = k
    /\ \A i \in Laid : OwnSheet(i)
    /\ pc = "done" =>
          /\ Len(out_file.order) = 1 + Len(persons)
          /\ \A i \in 1..Len(persons) :
                /\ out_file.sheets[SummaryName][<<i, 1>>].v.sheet
                      = SheetName(persons[i])
                /\ Value(out_file.sheets, SummaryName, <<i, 1>>)
                      = total_hours(persons[i].df_person) * 100

\* what holds of the code: no label is 'Summary', and in a run whose labels
\* are pairwise distinct every person has a sheet of their own
C12_DistinctLabelsOwnSheets ==
    /\ \A i \in 1..Len(persons) : SheetName(persons[i]) # SummaryName
    /\ (\A i \in 1..Len(persons) : \A j \in 1..Len(persons) :
           i # j => SheetName(persons[i]) # SheetName(persons[j]))
        => /\ pc = "layout" => Len(sheet_order) = k
           /\ \A i \in Laid : OwnSheet(i)
           /\ pc = "done" =>
                 /\ Len(out_file.order) = 1 + Len(persons)
                 /\ \A i \in 1..Len(persons) :
                       Value(out_file.sheets, SummaryName, <<i, 1>>)
                         = total_hours(persons[i].df_person) * 100

\* two persons laid out one after the other on one sheet: the first one's
\* Summary row then shows hours that are not that person's
C12_Overwritten ==
    /\ pc = "done"
    /\ \E i \in 1..Len(persons) : \E j \in 1..Len(persons) :
          /\ i < j
          /\ SheetName(persons[i]) = SheetName(persons[j])
          /\ ~OwnSheet(i)
          /\ Value(out_file.sheets, SummaryName, <<i, 1>>)
                # total_hours(persons[i].df_person) * 100

=============================================================================
